---- MODULE Spec2Model ----
(***************************************************************************)
(* State-machine model of src/main.py: the chat handlers of the YouTube    *)
(* downloader bot, the playlist batch orchestration of                     *)
(* handle_playlist_action and the per-item pipeline of                     *)
(* download_and_send_video.                                                *)
(*                                                                         *)
(* Strings are sequences of tokens.  A token is either one delimiter       *)
(* ("_" or "|") or a run of characters without a delimiter, so that        *)
(* str.split and str.startswith act on them as they act on the characters. *)
(* A message text is a sequence of lines; a line is a record               *)
(* [k, lab, x]: its kind, the progress label it carries (<<i, n>> for      *)
(* "[i/n]", <<>> for the empty label) and its remaining variable part.     *)
(***************************************************************************)
EXTENDS Integers, Sequences, FiniteSets, TLC

(***************************************************************************)
(* Program constants.                                                      *)
(***************************************************************************)
MAX_FILE_SIZE == 2000 * 1024 * 1024

DOWNLOAD_BATCH_SIZE == 5

HASH_MODULUS == 10000

FIRST_N == 5

SELECT_LIMIT == 30

MiB == 1024 * 1024

(***************************************************************************)
(* Bounds of the model.                                                    *)
(***************************************************************************)
MaxEntries == 7

MaxShort == 2

MaxUrls == 2

MaxPresses == 2

MaxOver == 2

MaxFormats == 3

\* the extract_info calls that return while a chat is watched
MaxFetched == 1

(***************************************************************************)
(* String helpers: str.startswith, str.split, f-string concatenation.      *)
(***************************************************************************)
StartsWith(s, p) == Len(s) >= Len(p) /\ SubSeq(s, 1, Len(p)) = p

FirstIndex(s, d) == CHOOSE i \in 1..Len(s) : s[i] = d /\ \A k \in 1..(i - 1) : s[k] # d

RECURSIVE Split(_, _)
Split(s, d) ==
    IF \E i \in 1..Len(s) : s[i] = d
    THEN <<SubSeq(s, 1, FirstIndex(s, d) - 1)>>
            \o Split(SubSeq(s, FirstIndex(s, d) + 1, Len(s)), d)
    ELSE <<s>>

WATCH_PREFIX == "https://www.youtube.com/watch?v="

PLAYLIST_PREFIX == "https://www.youtube.com/playlist?list="

\* f"https://www.youtube.com/watch?v={video_id}"
WatchUrl(video_id) == <<WATCH_PREFIX>> \o video_id

\* "playlist" in url or "list=" in url
IsPlaylistUrl(url) == \E i \in 1..Len(url) : url[i] = PLAYLIST_PREFIX

(***************************************************************************)
(* Message texts.                                                          *)
(***************************************************************************)
Line(k, lab, x) == [k |-> k, lab |-> lab, x |-> x]

NoLabel == <<>>

\* f"[{idx + 1}/{video_count}]" with idx counted from 0
Label(idx, total) == <<idx + 1, total>>

\* f"{file_size / (1024 * 1024):.1f}MB", to the whole MiB
SizeMB(file_size) == ToString(file_size \div MiB)

\* current_text.endswith(f"\nDownloading {progress_label}...")
EndsWithDownloading(text, progress_label) ==
    /\ Len(text) >= 2
    /\ text[Len(text)] = Line("Downloading", progress_label, <<>>)

\* "Uploading" in current_text: an uploading line, or the word anywhere else in the
\* text, as in a title the text quotes
ContainsUploading(text) ==
    \E i \in 1..Len(text) :
        \/ text[i].k = "Uploading"
        \/ \E w \in 1..Len(text[i].x) : text[i].x[w] = "Uploading"

\* current_text.replace(f"Uploading {progress_label}", f"<new> {progress_label}<x>"):
\* an empty label makes the pattern "Uploading ", found in every uploading line.
ReplaceUploading(text, progress_label, new, x) ==
    [i \in 1..Len(text) |->
        IF text[i].k = "Uploading" /\ (progress_label = NoLabel \/ text[i].lab = progress_label)
        THEN Line(new, text[i].lab, x \o text[i].x)
        ELSE text[i]]

\* current_text.replace(f"Downloading {progress_label}...", f"Failed {progress_label}: <reason>")
ReplaceDownloading(text, progress_label, reason) ==
    [i \in 1..Len(text) |->
        IF text[i] = Line("Downloading", progress_label, <<>>)
        THEN Line("Failed", progress_label, <<reason>>)
        ELSE text[i]]

(***************************************************************************)
(* Playlist entries, scratch directories and the extractor's results.      *)
(***************************************************************************)
NullEntry == [present |-> FALSE, id |-> <<>>]

Entry(id) == [present |-> TRUE, id |-> id]

\* entry.get('id') inside the f-string: a missing id is formatted as "None"
VideoId(entry) == IF entry.id = <<>> THEN <<"None">> ELSE entry.id

NoDir == [exists |-> FALSE, entries |-> <<>>]

EmptyDir == [exists |-> TRUE, entries |-> <<>>]

File(size) == [type |-> "file", size |-> size]

SubDir == [type |-> "dir", size |-> 4096]

NoFile == [type |-> "none", size |-> 0]

\* Keep the elements of a sequence that are not regular files.
RECURSIVE NotFiles(_)
NotFiles(es) ==
    IF es = <<>> THEN <<>>
    ELSE IF Head(es).type = "file" THEN NotFiles(Tail(es))
         ELSE <<Head(es)>> \o NotFiles(Tail(es))

\* cleanup_temp_files: unlink the regular files, then os.rmdir, which raises
\* (swallowed) while anything is left in the directory.
cleanup_temp_files(directory) ==
    IF ~directory.exists THEN directory
    ELSE IF NotFiles(directory.entries) = <<>> THEN NoDir
         ELSE [exists |-> TRUE, entries |-> NotFiles(directory.entries)]

\* if file_size > MAX_FILE_SIZE, with the ceiling moved up by one MiB
ExceedsLimit_loose(file_size) == file_size > MAX_FILE_SIZE + MiB

\* if file_size > MAX_FILE_SIZE
ExceedsLimit(file_size) == file_size > MAX_FILE_SIZE

(***************************************************************************)
(* State.                                                                  *)
(***************************************************************************)
VARIABLES
    pyHash,         \* hash(url) of this interpreter run, per playlist URL
    catalog,        \* what the extractor's extract_info(url, download=False) yields
    quota,          \* inputs still to come: [urls, presses, cancels, faults]
    urls,           \* context.chat_data['urls']: short id -> URL
    download_task,  \* context.chat_data['download_task'], "absent" while the key is not set
    msgs,           \* the messages of the chat, as the user sees them
    h,              \* the update handler being run, and where it is suspended
    jobs,           \* the download_and_send_video coroutines created so far
    answers,        \* the last callback answer or command reply
    cancel_log      \* what was true when the user asked to cancel

vars == <<pyHash, catalog, quota, urls, download_task, msgs, h, jobs, answers, cancel_log>>

Idle ==
    [pc |-> "idle", kind |-> "none", action |-> <<>>, url |-> <<>>, entries |-> <<>>,
     total |-> 0, batch_start |-> 0, tasks |-> {}, msg |-> 0, status |-> 0,
     text |-> <<>>, outcome |-> "none", cause |-> "none", batches |-> 0, quality |-> <<>>,
     pressed |-> <<>>]

\* keyboard is the set of payloads of the message's buttons; rows lists the buttons
\* of a quality menu in the order they were appended
Message(kind, text, caption, keyboard, owner) ==
    [kind |-> kind, text |-> text, caption |-> caption, keyboard |-> keyboard, owner |-> owner,
     rows |-> <<>>]

\* a message sent or edited with reply_markup built from the list of buttons
Menu(kind, text, caption, buttons, owner) ==
    [kind |-> kind, text |-> text, caption |-> caption,
     keyboard |-> {buttons[i].data : i \in 1..Len(buttons)}, owner |-> owner, rows |-> buttons]

\* message.edit_text(new_text) with no reply_markup: the text is replaced and the
\* inline keyboard removed; the transport refuses it on a message that has no text.
EditText(ms, m, new_text) ==
    [ms EXCEPT ![m] = Message("text", new_text, <<>>, {}, <<>>)]

\* message.edit_caption(caption=...)
EditCaption(ms, m, caption) ==
    [ms EXCEPT ![m] = Message("photo", <<>>, caption, {}, <<>>)]

\* get_message_text: message.text or "" of the Message object the caller holds.
\* That object is the one an earlier call returned; no statement updates it, so the
\* text is the one it was created with.
get_message_text(text) == text

\* update_info_message: message.edit_text(new_text), any exception logged and dropped
update_info_message(ms, m, new_text) ==
    IF ms[m].kind = "text" THEN EditText(ms, m, new_text) ELSE ms

(***************************************************************************)
(* handle_url -> handle_playlist: the short id and the lookup table.       *)
(***************************************************************************)
\* str(hash(url) % 10000)
UrlId(hash_of_url) == <<ToString(hash_of_url % HASH_MODULUS)>>

\* context.chat_data['urls'][url_id] = url
StoreUrl(table, url_id, url) ==
    [k \in DOMAIN table \cup {url_id} |-> IF k = url_id THEN url ELSE table[k]]

PlaylistButton(action, url_id) == <<"playlist", "_", action, "_">> \o url_id

BulkActions == {"all", "select", "first5", "audio"}

PlaylistKeyboard(url_id) == {PlaylistButton(a, url_id) : a \in BulkActions}

(***************************************************************************)
(* process_single_video: the quality menu of one video.  A stream is       *)
(* [height, vcodec, acodec, filesize]; height 0 stands for a missing or    *)
(* null height, filesize 0 for a missing one and -1 for an explicit null.  *)
(***************************************************************************)
Stream(height, vcodec, acodec, filesize) ==
    [height |-> height, vcodec |-> vcodec, acodec |-> acodec, filesize |-> filesize]

RECURSIVE SelectSeq2(_, _)
SelectSeq2(fs, kind) ==
    IF fs = <<>> THEN <<>>
    ELSE LET f == Head(fs)
             keep == IF kind = "combined"
                     THEN f.vcodec # "none" /\ f.acodec # "none" /\ f.height # 0
                     ELSE f.vcodec # "none" /\ f.height # 0 /\ f.height >= 480
         IN  (IF keep THEN <<f>> ELSE <<>>) \o SelectSeq2(Tail(fs), kind)

\* formats, or the video-only streams of at least 480 lines when there is none
CandidateFormats(all) ==
    IF SelectSeq2(all, "combined") # <<>> THEN SelectSeq2(all, "combined")
    ELSE SelectSeq2(all, "video")

\* the formats in the order the extractor lists them
SortByHeight_asis(fs) == fs

\* sorted(formats, key=height, reverse=True): stable, highest first
RECURSIVE InsertByHeight(_, _)
InsertByHeight(f, sorted) ==
    IF sorted = <<>> THEN <<f>>
    ELSE IF Head(sorted).height >= f.height
         THEN <<Head(sorted)>> \o InsertByHeight(f, Tail(sorted))
         ELSE <<f>> \o sorted

RECURSIVE SortByHeight(_)
SortByHeight(fs) ==
    IF fs = <<>> THEN <<>>
    ELSE InsertByHeight(fs[Len(fs)], SortByHeight(SubSeq(fs, 1, Len(fs) - 1)))

QualityData(quality, url) == <<"quality", "|", quality, "|">> \o url

Button(label, data) == [label |-> label, data |-> data]

\* The loop over the sorted streams; raised is the TypeError of None / (1024 * 1024).
RECURSIVE ResolutionButtons(_, _, _)
ResolutionButtons(fs, seen, url) ==
    IF fs = <<>> THEN [raised |-> FALSE, buttons |-> <<>>]
    ELSE LET f == Head(fs)
             offered == 480 <= f.height /\ f.height <= 2160 /\ f.height \notin seen
             rest == ResolutionButtons(Tail(fs), IF offered THEN seen \cup {f.height} ELSE seen, url)
             label == IF f.filesize > 0
                      THEN <<ToString(f.height), "p", SizeMB(f.filesize), "MB">>
                      ELSE <<ToString(f.height), "p">>
         IN  IF ~offered THEN rest
             ELSE IF f.filesize = -1 THEN [raised |-> TRUE, buttons |-> <<>>]
             ELSE [raised |-> rest.raised,
                   buttons |-> IF rest.raised THEN <<>>
                               ELSE <<Button(label, QualityData(ToString(f.height), url))>>
                                        \o rest.buttons]

\* the fallback buttons, lowest resolution first
FallbackButtons_asc(url) ==
    [i \in 1..3 |-> LET res == <<480, 720, 1080>>[i]
                    IN  Button(<<ToString(res), "p">>, QualityData(ToString(res), url))]

\* for res in [1080, 720, 480]: buttons.append(...)
FallbackButtons(url) ==
    [i \in 1..3 |-> LET res == <<1080, 720, 480>>[i]
                    IN  Button(<<ToString(res), "p">>, QualityData(ToString(res), url))]

\* the buttons of the menu, the audio button last
QualityButtons(all, url) ==
    LET found == ResolutionButtons(SortByHeight(CandidateFormats(all)), {}, url)
    IN  [raised |-> found.raised,
         buttons |-> IF found.raised THEN <<>>
                     ELSE (IF found.buttons = <<>> THEN FallbackButtons(url) ELSE found.buttons)
                              \o <<Button(<<"Audio Only">>, QualityData("audio", url))>>]

(***************************************************************************)
(* handle_url: a URL sent by the user.  The whole handler runs before the  *)
(* next update is taken up, so it is one step.                             *)
(***************************************************************************)
Min(a, b) == IF a < b THEN a ELSE b

\* what extract_info may yield for a playlist URL: the playlist, or a failure
Resolutions(url) ==
    {catalog[url],
     [catalog[url] EXCEPT !.res = "raise"],
     [catalog[url] EXCEPT !.res = "none"],
     [catalog[url] EXCEPT !.entries = <<>>]}

\* handle_playlist, after the status message was sent as message m
handle_playlist(url, m, info) ==
    LET url_id == UrlId(pyHash[url])
        text   == IF info.res = "raise" THEN <<Line("Error", <<>>, <<"playlist">>)>>
                  ELSE IF info.res = "none" THEN <<Line("NotFetched", <<>>, <<>>)>>
                  ELSE IF info.entries = <<>> THEN <<Line("Empty", <<>>, <<>>)>>
                  ELSE <<Line("PlaylistMenu", <<Len(info.entries)>>, <<>>)>>
        shown  == info.res = "playlist" /\ info.entries # <<>>
    IN  /\ urls' = StoreUrl(urls, url_id, url)
        /\ msgs' = Append(msgs, Message("text", text, <<>>,
                            IF shown THEN PlaylistKeyboard(url_id) ELSE {},
                            IF shown THEN url ELSE <<>>))

\* process_single_video, after the status message was sent as message m
process_single_video(url, m) ==
    LET info == catalog[url]
        menu == QualityButtons(info.formats, url)
    IN  /\ UNCHANGED urls
        /\ IF info.res = "raise" \/ (info.res = "video" /\ ~info.live /\ menu.raised)
           THEN msgs' = Append(msgs, Message("text", <<Line("Error", <<>>, <<"video">>)>>, <<>>, {}, <<>>))
           ELSE IF info.res = "none"
           THEN msgs' = Append(msgs, Message("text", <<Line("NotFetched", <<>>, <<>>)>>, <<>>, {}, <<>>))
           ELSE IF info.live
           THEN msgs' = Append(msgs, Message("text", <<Line("Live", <<>>, <<>>)>>, <<>>, {}, <<>>))
           ELSE IF info.thumb
           THEN \/ msgs' = Append(Append(msgs, Message("deleted", <<>>, <<>>, {}, <<>>)),
                                  Menu("photo", <<>>, <<Line("Menu", <<>>, <<>>)>>, menu.buttons, url))
                \/ msgs' = Append(msgs, Menu("text", <<Line("Menu", <<>>, <<>>)>>, <<>>, menu.buttons, url))
           ELSE msgs' = Append(msgs, Menu("text", <<Line("Menu", <<>>, <<>>)>>, <<>>, menu.buttons, url))

handle_url(url) ==
    /\ h.pc = "idle"
    /\ quota.urls > 0
    /\ quota' = [quota EXCEPT !.urls = @ - 1]
    /\ IF IsPlaylistUrl(url)
       THEN \E info \in Resolutions(url) : handle_playlist(url, Len(msgs) + 1, info)
       ELSE process_single_video(url, Len(msgs) + 1)
    /\ UNCHANGED <<pyHash, catalog, download_task, h, jobs, answers, cancel_log>>

(***************************************************************************)
(* cancel_command.                                                         *)
(***************************************************************************)
BatchRunning == h.kind = "playlist" /\ h.pc \in {"starting", "announce", "gather"}

cancel_command ==
    /\ quota.cancels > 0
    /\ quota' = [quota EXCEPT !.cancels = @ - 1]
    /\ IF download_task # "absent"
       THEN /\ download_task' = "None"
            /\ answers' = "Download canceled."
       ELSE /\ UNCHANGED download_task
            /\ answers' = "No active download to cancel."
    /\ cancel_log' = IF BatchRunning
                     THEN [asked |-> TRUE, batches |-> h.batches]
                     ELSE cancel_log
    /\ UNCHANGED <<pyHash, catalog, urls, msgs, h, jobs>>

(***************************************************************************)
(* callback_query_handler: where a button payload is routed.               *)
(***************************************************************************)
\* the routing with every payload taken for a quality button
Route_guess(callback_data, table) ==
    [to |-> "quality", arg |-> <<"720">>, url |-> WatchUrl(<<"ab">>), answer |-> ""]

Route(callback_data, table) ==
    IF StartsWith(callback_data, <<"quality", "|">>)
    THEN LET parts == Split(callback_data, "|")
         IN  [to |-> "quality", arg |-> parts[2], url |-> parts[3], answer |-> ""]
    ELSE IF StartsWith(callback_data, <<"playlist", "_">>)
    THEN LET parts == Split(callback_data, "_")
         IN  IF Len(parts) >= 3
             THEN IF parts[3] \in DOMAIN table
                  THEN [to |-> "playlist", arg |-> parts[2], url |-> table[parts[3]], answer |-> ""]
                  ELSE [to |-> "answer", arg |-> <<>>, url |-> <<>>,
                        answer |-> "URL not found. Please try again."]
             ELSE [to |-> "answer", arg |-> <<>>, url |-> <<>>, answer |-> "Invalid callback data"]
    ELSE IF StartsWith(callback_data, <<"playlist", "_", "video", "|">>)
    THEN LET parts == Split(callback_data, "|")
         IN  [to |-> "quality", arg |-> parts[3], url |-> WatchUrl(parts[2]), answer |-> ""]
    ELSE IF StartsWith(callback_data, <<"video", "_", "info", "|">>)
    THEN [to |-> "answer", arg |-> <<>>, url |-> <<>>, answer |-> "Video ID"]
    ELSE [to |-> "answer", arg |-> <<>>, url |-> <<>>, answer |-> "Unknown action"]

(***************************************************************************)
(* download_and_send_video: one DownloadJob.  A job is suspended at its    *)
(* awaits: the report edits and the upload.                                *)
(***************************************************************************)
NewJob(quality, url, progress_label, m, text, batch) ==
    [quality |-> quality, url |-> url, label |-> progress_label, msg |-> m, text |-> text,
     batch |-> batch, pc |-> "created", res |-> "none", dir |-> NoDir, chosen |-> NoFile,
     fetches |-> 0, sends |-> 0]

JobIds == 1..Len(jobs)

Terminal(j) == jobs[j].pc = "done"

\* the except branch: the failure line replaces the job's line in the text the job
\* holds, and the result is written to the report
FailedText(job, reason) ==
    ReplaceUploading(ReplaceDownloading(get_message_text(job.text), job.label, reason),
                     job.label, "Failed", <<reason>>)

\* mkdtemp() and the "Downloading <label>..." line
download_start(j) ==
    /\ jobs[j].pc = "created"
    /\ \/ /\ quota.faults > 0
          /\ quota' = [quota EXCEPT !.faults = @ - 1]
          /\ jobs' = [jobs EXCEPT ![j].pc = "done", ![j].res = "raised"]
          /\ UNCHANGED msgs
       \/ /\ UNCHANGED quota
          /\ jobs' = [jobs EXCEPT ![j].pc = "fetching", ![j].dir = EmptyDir]
          /\ LET current_text == get_message_text(jobs[j].text)
             IN  IF ~EndsWithDownloading(current_text, jobs[j].label)
                 THEN msgs' = update_info_message(msgs, jobs[j].msg,
                                 current_text \o <<Line("Downloading", jobs[j].label, <<>>)>>)
                 ELSE UNCHANGED msgs
    /\ UNCHANGED <<pyHash, catalog, urls, download_task, h, answers, cancel_log>>

\* ydl.extract_info(url, download=True) called again after it raised
download_fetch_retry(j, outcomes) ==
    /\ jobs[j].pc = "fetching"
    /\ jobs[j].fetches < 2
    /\ jobs' = [jobs EXCEPT ![j].fetches = @ + 1]
    /\ UNCHANGED <<pyHash, catalog, quota, urls, download_task, msgs, h, answers, cancel_log>>

\* ydl.extract_info(url, download=True), os.listdir, the size ceiling and the
\* "Uploading <label>" line.  left is what the extractor leaves in the directory;
\* first is the position os.listdir happens to list first.
download_fetch(j, outcomes) ==
    /\ jobs[j].pc = "fetching"
    /\ \E o \in outcomes :
        LET job == [jobs[j] EXCEPT !.fetches = @ + 1,
                                   !.dir = [exists |-> TRUE, entries |-> o.left]]
        IN  IF o.raises
            THEN /\ jobs' = [jobs EXCEPT ![j] = [job EXCEPT !.pc = "finishing", !.res = "failed"]]
                 /\ msgs' = update_info_message(msgs, job.msg, FailedText(job, "download error"))
            ELSE IF o.left = <<>>
            THEN /\ jobs' = [jobs EXCEPT ![j] = [job EXCEPT !.pc = "finishing", !.res = "failed"]]
                 /\ msgs' = update_info_message(msgs, job.msg,
                                FailedText(job, "No files were downloaded"))
            ELSE \E first \in 1..Len(o.left) :
                    LET output == o.left[first]
                    IN  IF ExceedsLimit(output.size)
                        THEN /\ jobs' = [jobs EXCEPT ![j] = [job EXCEPT !.pc = "finishing",
                                                !.res = "failed", !.chosen = output]]
                             /\ msgs' = update_info_message(msgs, job.msg,
                                            FailedText(job, "exceeds the 2GB limit"))
                        ELSE /\ jobs' = [jobs EXCEPT ![j] = [job EXCEPT !.pc = "sending",
                                                !.chosen = output]]
                             /\ LET current_text == get_message_text(job.text)
                                IN  IF ~ContainsUploading(current_text)
                                    THEN msgs' = update_info_message(msgs, job.msg,
                                            current_text \o <<Line("Uploading", job.label,
                                                                   <<SizeMB(output.size)>>)>>)
                                    ELSE UNCHANGED msgs
    /\ jobs'[j].pc = "sending" /\ jobs'[j].chosen.type = "file" => UNCHANGED quota
    /\ ~(jobs'[j].pc = "sending" /\ jobs'[j].chosen.type = "file") =>
            quota.faults > 0 /\ quota' = [quota EXCEPT !.faults = @ - 1]
    /\ UNCHANGED <<pyHash, catalog, urls, download_task, h, answers, cancel_log>>

\* open(output_path, "rb"), send_audio or send_video, and the "Completed" line
download_send(j) ==
    /\ jobs[j].pc = "sending"
    /\ LET job == jobs[j]
       IN  IF job.chosen.type # "file"
           THEN /\ jobs' = [jobs EXCEPT ![j].pc = "finishing", ![j].res = "failed"]
                /\ msgs' = update_info_message(msgs, job.msg, FailedText(job, "Is a directory"))
           ELSE \/ /\ jobs' = [jobs EXCEPT ![j].pc = "finishing", ![j].res = "ok",
                                           ![j].sends = @ + 1]
                   /\ msgs' = update_info_message(msgs, job.msg,
                                ReplaceUploading(get_message_text(job.text), job.label,
                                                 "Completed", <<>>))
                \/ /\ quota.faults > 0
                   /\ jobs' = [jobs EXCEPT ![j].pc = "finishing", ![j].res = "failed",
                                           ![j].sends = @ + 1]
                   /\ msgs' = update_info_message(msgs, job.msg, FailedText(job, "delivery error"))
    /\ quota' = IF jobs'[j].res = "failed" /\ jobs[j].chosen.type = "file"
                THEN [quota EXCEPT !.faults = @ - 1] ELSE quota
    /\ UNCHANGED <<pyHash, catalog, urls, download_task, h, answers, cancel_log>>

\* finally: cleanup_temp_files(temp_dir), with the coroutine never returning
download_finish_stay(j) ==
    /\ jobs[j].pc = "finishing"
    /\ jobs[j].dir.exists
    /\ jobs' = [jobs EXCEPT ![j].dir = NoDir]
    /\ UNCHANGED <<pyHash, catalog, quota, urls, download_task, msgs, h, answers, cancel_log>>

\* finally: cleanup_temp_files(temp_dir), and the coroutine returns
download_finish(j) ==
    /\ jobs[j].pc = "finishing"
    /\ jobs' = [jobs EXCEPT ![j].pc = "done", ![j].dir = cleanup_temp_files(@)]
    /\ UNCHANGED <<pyHash, catalog, quota, urls, download_task, msgs, h, answers, cancel_log>>

(***************************************************************************)
(* handle_playlist_action: the playlist bulk actions.                      *)
(***************************************************************************)
\* range(batch_start, batch_end) with batch_end left at the end of the playlist
BatchIdx_open(entries, batch_start, size) ==
    {idx \in batch_start..(Len(entries) - 1) : entries[idx + 1].present}

\* range(batch_start, batch_end) without the entries skipped by "if not entry: continue"
BatchIdx(entries, batch_start, size) ==
    {idx \in batch_start..(Min(batch_start + size, Len(entries)) - 1) : entries[idx + 1].present}

\* the batch_start of the first iteration from start on that creates a task
RECURSIVE NextBatchStart(_, _)
NextBatchStart(entries, start) ==
    IF start >= Len(entries) THEN start
    ELSE IF BatchIdx(entries, start, DOWNLOAD_BATCH_SIZE) # {} THEN start
    ELSE NextBatchStart(entries, start + DOWNLOAD_BATCH_SIZE)

\* the indexes of a batch in ascending order
RECURSIVE Ascending(_)
Ascending(S) ==
    IF S = {} THEN <<>>
    ELSE LET m == CHOOSE x \in S : \A y \in S : x <= y
         IN  <<m>> \o Ascending(S \ {m})

\* the quality of the jobs, with the "audio" branch passing "720" as well
BulkQuality_video(action) == <<"720">>

\* the quality every job of a bulk action is given
BulkQuality(action) == IF action = <<"audio">> THEN <<"audio">> ELSE <<"720">>

\* asyncio.create_task(download_and_send_video(...)) for the indexes of one batch
BatchJobs(idxs, batch) ==
    [i \in 1..Cardinality(idxs) |->
        LET idx == Ascending(idxs)[i]
        IN  NewJob(BulkQuality(h.action), WatchUrl(VideoId(h.entries[idx + 1])),
                   Label(idx, h.total), h.msg, h.text, batch)]

\* the buttons of the select menu, with entries[:limit] left as entries
SelectKeyboard_all(entries) ==
    UNION {{<<"video", "_", "info", "|">> \o VideoId(entries[i]),
            <<"playlist", "_", "video", "|">> \o VideoId(entries[i]) \o <<"|", "720">>,
            <<"playlist", "_", "video", "|">> \o VideoId(entries[i]) \o <<"|", "480">>,
            <<"playlist", "_", "video", "|">> \o VideoId(entries[i]) \o <<"|", "audio">>}
           : i \in {k \in 1..Len(entries) : entries[k].present}}

\* the buttons of the select menu: an info button and three quality buttons for
\* each non-null entry of entries[:limit]
SelectKeyboard(entries) ==
    UNION {{<<"video", "_", "info", "|">> \o VideoId(entries[i]),
            <<"playlist", "_", "video", "|">> \o VideoId(entries[i]) \o <<"|", "720">>,
            <<"playlist", "_", "video", "|">> \o VideoId(entries[i]) \o <<"|", "480">>,
            <<"playlist", "_", "video", "|">> \o VideoId(entries[i]) \o <<"|", "audio">>}
           : i \in {k \in 1..Min(SELECT_LIMIT, Len(entries)) : entries[k].present}}

\* limit = min(5, len(entries)), with the limit left at the length of the playlist
FirstLimit_all(entries) == Len(entries)

\* limit = min(5, len(entries))
FirstLimit(entries) == Min(FIRST_N, Len(entries))

\* the except branch of the handler, its edit of the report left out
hpa_error_silent(cause) ==
    /\ UNCHANGED msgs
    /\ h' = [h EXCEPT !.pc = "idle", !.outcome = "Failed", !.cause = cause, !.tasks = {}]

\* the except branch of the handler: the error text replaces the report.  cause
\* records which call raised.
hpa_error(cause) ==
    /\ msgs' = EditText(msgs, h.msg, <<Line("Error", <<>>, <<"playlist">>)>>)
    /\ h' = [h EXCEPT !.pc = "idle", !.outcome = "Failed", !.cause = cause, !.tasks = {}]

\* extract_info and the branch on the action, up to the first report of the action
hpa_resolve ==
    /\ h.pc = "resolving"
    /\ \E info \in Resolutions(h.url) :
         IF info.res = "raise" THEN hpa_error("extract_info")
         ELSE IF info.res = "none"
         THEN /\ msgs' = EditText(msgs, h.msg, <<Line("NotFetched", <<>>, <<>>)>>)
              /\ h' = [h EXCEPT !.pc = "idle", !.outcome = "Failed", !.cause = "extract_info"]
         ELSE IF info.entries = <<>>
         THEN /\ msgs' = EditText(msgs, h.msg, <<Line("Empty", <<>>, <<>>)>>)
              /\ h' = [h EXCEPT !.pc = "idle", !.outcome = "Failed", !.cause = "extract_info"]
         ELSE IF h.action \in {<<"all">>, <<"audio">>}
         THEN LET text == <<Line("Start", <<Len(info.entries)>>, h.action \o info.title)>>
              IN  /\ msgs' = EditText(msgs, h.msg, text)
                  /\ h' = [h EXCEPT !.pc = "starting", !.entries = info.entries,
                                    !.total = Len(info.entries), !.text = text]
         ELSE IF h.action = <<"first5">>
         THEN LET limit == FirstLimit(info.entries)
                  text == <<Line("Start", <<limit>>, h.action \o info.title)>>
              IN  /\ msgs' = EditText(msgs, h.msg, text)
                  /\ h' = [h EXCEPT !.pc = "starting", !.entries = info.entries,
                                    !.total = limit, !.text = text]
         ELSE IF h.action = <<"select">>
         THEN /\ msgs' = [msgs EXCEPT ![h.msg] =
                            Message("text", <<Line("Select", <<>>, <<>>)>>, <<>>,
                                    SelectKeyboard(info.entries), h.url)]
              /\ h' = [h EXCEPT !.pc = "idle", !.outcome = "Completed", !.entries = info.entries]
         ELSE /\ UNCHANGED msgs
              /\ h' = [h EXCEPT !.pc = "idle", !.outcome = "none"]
    /\ UNCHANGED <<pyHash, catalog, quota, urls, download_task, jobs, answers, cancel_log>>

\* asyncio.gather as if it returned with the first task that ends
Settled_first == \E t \in h.tasks : jobs[t].pc = "done" /\ jobs[t].res # "raised"

\* every task the handler is waiting for has returned
Settled == \A t \in h.tasks : jobs[t].pc = "done" /\ jobs[t].res # "raised"

\* where the batch loop stands when the handler runs again
LoopStart == IF h.pc = "starting" THEN 0 ELSE h.batch_start + DOWNLOAD_BATCH_SIZE

\* one iteration of the batch loop of "all" and "audio" that creates tasks: the
\* tasks are created, then the announcement of the batch is sent
hpa_batch ==
    /\ h.kind = "playlist"
    /\ h.action \in {<<"all">>, <<"audio">>}
    /\ h.pc = "starting" \/ (h.pc = "gather" /\ Settled)
    /\ LET batch_start == NextBatchStart(h.entries, LoopStart)
           idxs == BatchIdx(h.entries, batch_start, DOWNLOAD_BATCH_SIZE)
       IN  /\ batch_start < h.total
           /\ jobs' = jobs \o BatchJobs(idxs, h.batches + 1)
           /\ h' = [h EXCEPT !.pc = "announce", !.batch_start = batch_start,
                             !.batches = @ + 1,
                             !.tasks = (Len(jobs) + 1)..(Len(jobs) + Cardinality(idxs))]
    /\ UNCHANGED <<pyHash, catalog, quota, urls, download_task, msgs, answers, cancel_log>>

\* the single batch of "first5": the tasks are created and awaited at once
hpa_first ==
    /\ h.kind = "playlist"
    /\ h.action = <<"first5">>
    /\ h.pc = "starting"
    /\ LET idxs == BatchIdx(h.entries, 0, h.total)
       IN  /\ idxs # {}
           /\ jobs' = jobs \o BatchJobs(idxs, h.batches + 1)
           /\ h' = [h EXCEPT !.pc = "gather", !.batches = @ + 1,
                             !.tasks = (Len(jobs) + 1)..(Len(jobs) + Cardinality(idxs))]
    /\ UNCHANGED <<pyHash, catalog, quota, urls, download_task, msgs, answers, cancel_log>>

\* the announcement edit returns: the handler goes on to asyncio.gather, or the
\* edit raised and the handler ends in its except branch
hpa_announced ==
    /\ h.pc = "announce"
    /\ \/ /\ msgs' = EditText(msgs, h.msg,
                        <<Line("Batch",
                               <<h.batch_start \div DOWNLOAD_BATCH_SIZE + 1,
                                 (h.total - 1) \div DOWNLOAD_BATCH_SIZE + 1,
                                 h.batch_start + 1,
                                 Min(h.batch_start + DOWNLOAD_BATCH_SIZE, h.total),
                                 h.total>>,
                               h.action)>>)
          /\ h' = [h EXCEPT !.pc = "gather"]
          /\ UNCHANGED quota
       \/ /\ quota.faults > 0
          /\ quota' = [quota EXCEPT !.faults = @ - 1]
          /\ hpa_error("edit_text")
    /\ UNCHANGED <<pyHash, catalog, urls, download_task, jobs, answers, cancel_log>>

\* asyncio.gather as if it raised for a task that returned False as well
hpa_gather_raised_any ==
    /\ h.kind = "playlist"
    /\ h.pc = "gather"
    /\ \E t \in h.tasks : jobs[t].res \in {"raised", "failed"} /\ jobs[t].pc = "done"
    /\ hpa_error("gather")
    /\ UNCHANGED <<pyHash, catalog, quota, urls, download_task, jobs, answers, cancel_log>>

\* asyncio.gather re-raises the exception of a task that raised
hpa_gather_raised ==
    /\ h.kind = "playlist"
    /\ h.pc = "gather"
    /\ \E t \in h.tasks : jobs[t].res = "raised"
    /\ hpa_error("gather")
    /\ UNCHANGED <<pyHash, catalog, quota, urls, download_task, jobs, answers, cancel_log>>

\* the loop is over, and the report is left as the jobs wrote it
hpa_complete_keep ==
    /\ h.kind = "playlist"
    /\ h.pc = "gather" /\ Settled
    /\ NextBatchStart(h.entries, LoopStart) >= h.total
    /\ h' = [h EXCEPT !.pc = "idle", !.outcome = "Completed", !.tasks = {}]
    /\ UNCHANGED <<pyHash, catalog, quota, urls, download_task, msgs, jobs, answers, cancel_log>>

\* the loop is over: the "complete" text replaces the report
hpa_complete ==
    /\ h.kind = "playlist"
    /\ h.action \in {<<"all">>, <<"audio">>, <<"first5">>}
    /\ \/ h.pc = "gather" /\ Settled
       \/ h.pc = "starting"
    /\ IF h.action = <<"first5">>
       THEN h.pc = "starting" => BatchIdx(h.entries, 0, h.total) = {}
       ELSE NextBatchStart(h.entries, LoopStart) >= h.total
    /\ msgs' = EditText(msgs, h.msg, <<Line("Complete", <<>>, h.action)>>)
    /\ h' = [h EXCEPT !.pc = "idle", !.outcome = "Completed", !.tasks = {}]
    /\ UNCHANGED <<pyHash, catalog, quota, urls, download_task, jobs, answers, cancel_log>>

(***************************************************************************)
(* handle_quality_selection: the single-item flow.                         *)
(***************************************************************************)
\* up to the call of download_and_send_video: the status replaces the menu, or is
\* sent as a new message when that edit raises
hqs_begin(m, quality, url, data) ==
    LET status_text == <<Line("Status", <<>>, quality)>>
    IN  /\ answers' = ""
        /\ \/ /\ msgs' = IF msgs[m].kind = "photo"
                         THEN EditCaption(msgs, m, status_text)
                         ELSE EditText(msgs, m, status_text)
              /\ jobs' = Append(jobs, NewJob(quality, url, NoLabel, m, msgs[m].text, 0))
              /\ h' = [Idle EXCEPT !.pc = "single", !.kind = "single", !.msg = m,
                                   !.status = m, !.tasks = {Len(jobs) + 1},
                                   !.quality = quality, !.url = url, !.pressed = data]
           \/ /\ msgs' = Append(msgs, Message("text", status_text, <<>>, {}, <<>>))
              /\ jobs' = Append(jobs, NewJob(quality, url, NoLabel, Len(msgs) + 1, status_text, 0))
              /\ h' = [Idle EXCEPT !.pc = "single", !.kind = "single", !.msg = m,
                                   !.status = Len(msgs) + 1, !.tasks = {Len(jobs) + 1},
                                   !.quality = quality, !.url = url, !.pressed = data]

\* download_and_send_video has returned or raised: the completion text on success
hqs_done ==
    /\ h.pc = "single"
    /\ \A t \in h.tasks : jobs[t].pc = "done"
    /\ IF \A t \in h.tasks : jobs[t].res = "ok"
       THEN /\ msgs' = IF msgs[h.msg].kind = "photo"
                       THEN EditCaption(msgs, h.msg, <<Line("Done", <<>>, <<>>)>>)
                       ELSE EditText(msgs, h.status, <<Line("Done", <<>>, <<>>)>>)
            /\ h' = [h EXCEPT !.pc = "idle", !.outcome = "Completed"]
       ELSE /\ UNCHANGED msgs
            /\ h' = [h EXCEPT !.pc = "idle", !.outcome = "Failed"]
    /\ UNCHANGED <<pyHash, catalog, quota, urls, download_task, jobs, answers, cancel_log>>

(***************************************************************************)
(* callback_query_handler: a button of message m is pressed.               *)
(***************************************************************************)
callback_query_handler(m, callback_data) ==
    /\ h.pc = "idle"
    /\ quota.presses > 0
    /\ quota' = [quota EXCEPT !.presses = @ - 1]
    /\ LET r == Route(callback_data, urls)
       IN  IF r.to = "quality" THEN hqs_begin(m, r.arg, r.url, callback_data)
           ELSE IF r.to = "playlist"
           THEN /\ msgs' = EditText(msgs, m, <<Line("Processing", <<>>, r.arg)>>)
                /\ h' = [Idle EXCEPT !.pc = "resolving", !.kind = "playlist", !.action = r.arg,
                                     !.url = r.url, !.msg = m, !.pressed = callback_data]
                /\ UNCHANGED <<jobs, answers>>
           ELSE /\ answers' = r.answer
                /\ h' = [Idle EXCEPT !.pressed = callback_data]
                /\ UNCHANGED <<msgs, jobs>>
    /\ UNCHANGED <<pyHash, catalog, urls, download_task, cancel_log>>

(***************************************************************************)
(* The inputs of the model and its specifications.                         *)
(***************************************************************************)
PlA == <<PLAYLIST_PREFIX, "A">>

PlB == <<PLAYLIST_PREFIX, "B">>

VidA == <<WATCH_PREFIX, "ab">>

Playlist(entries) ==
    [res |-> "playlist", entries |-> entries, live |-> FALSE, thumb |-> FALSE, formats |-> <<>>,
     title |-> <<"Mix">>]

Video(thumb, formats) ==
    [res |-> "video", entries |-> <<>>, live |-> FALSE, thumb |-> thumb, formats |-> formats,
     title |-> <<"Clip">>]

\* the same result under another title, a sequence of words
Titled(info, title) == [info EXCEPT !.title = title]

\* a playlist of n entries, all with an id
AllValid(n) == [i \in 1..n |-> Entry(<<"v", ToString(i)>>)]

\* a playlist whose first two entries and last entry alone are not null
Sparse(n) == [i \in 1..n |-> IF i \in {1, 2, n} THEN Entry(<<"v", ToString(i)>>) ELSE NullEntry]

\* what the extractor may leave behind in the scratch directory
Fetched(raises, left) == [raises |-> raises, left |-> left]

FewOutcomes ==
    {Fetched(TRUE, <<>>), Fetched(FALSE, <<>>),
     Fetched(FALSE, <<File(MiB)>>), Fetched(FALSE, <<File(MAX_FILE_SIZE + 1)>>)}

AllOutcomes ==
    FewOutcomes \cup
    {Fetched(TRUE, <<File(MiB)>>), Fetched(FALSE, <<File(MAX_FILE_SIZE)>>),
     Fetched(FALSE, <<File(MiB), File(MAX_FILE_SIZE + 1)>>),
     Fetched(FALSE, <<SubDir>>), Fetched(FALSE, <<File(MiB), SubDir>>)}

Step(outcomes) ==
    \/ \E url \in DOMAIN catalog : handle_url(url)
    \/ \E m \in 1..Len(msgs) : \E d \in msgs[m].keyboard : callback_query_handler(m, d)
    \/ cancel_command
    \/ hpa_resolve
    \/ hpa_batch
    \/ hpa_first
    \/ hpa_announced
    \/ hpa_gather_raised
    \/ hpa_complete
    \/ hqs_done
    \/ \E j \in JobIds : download_start(j)
    \/ \E j \in JobIds : download_fetch(j, outcomes)
    \/ \E j \in JobIds : download_send(j)
    \/ \E j \in JobIds : download_finish(j)

\* the steps the event loop takes by itself: every handler and task that is ready
\* to run again is run
Scheduled(outcomes) ==
    \/ hpa_resolve
    \/ hpa_batch
    \/ hpa_first
    \/ hpa_announced
    \/ hpa_gather_raised
    \/ hpa_complete
    \/ hqs_done
    \/ \E j \in JobIds : download_start(j)
    \/ \E j \in JobIds : download_fetch(j, outcomes)
    \/ \E j \in JobIds : download_send(j)
    \/ \E j \in JobIds : download_finish(j)

InitChat ==
    /\ urls = <<>>
    /\ download_task = "absent"
    /\ msgs = <<>>
    /\ h = Idle
    /\ jobs = <<>>
    /\ answers = ""
    /\ cancel_log = [asked |-> FALSE, batches |-> 0]

\* Every job fails at most once and a handler is aborted at most once, so an
\* allowance of one failure per entry and one more never restrains a run.
AnyFailure(entries) == Len(entries) + 1

\* small inputs: short playlists and one video, with everything the extractor may
\* leave behind and any failure
Init ==
    /\ InitChat
    /\ pyHash = (PlA :> 7)
    /\ \/ \E n \in 1..MaxShort :
            /\ catalog = (PlA :> Playlist(AllValid(n)))
            /\ quota = [urls |-> 1, presses |-> 1, cancels |-> 0, faults |-> AnyFailure(AllValid(n))]
       \/ \E thumb \in BOOLEAN :
            /\ catalog = (VidA :> Video(thumb, <<>>))
            /\ quota = [urls |-> 1, presses |-> 1, cancels |-> 1, faults |-> 2]

Next == Step(AllOutcomes)

Spec == Init /\ [][Next]_vars

\* the batches of a bulk action: full playlists of up to MaxEntries entries whose
\* jobs all succeed, playlists with null entries whose jobs may fail, and a playlist
\* whose title holds a word the jobs look for in the report
InitBatch ==
    /\ InitChat
    /\ pyHash = (PlA :> 7)
    /\ \/ \E n \in 1..MaxEntries :
            /\ catalog = (PlA :> Playlist(AllValid(n)))
            /\ quota = [urls |-> 1, presses |-> 1, cancels |-> 0, faults |-> 0]
       \/ /\ catalog = (PlA :> Playlist(Sparse(MaxEntries)))
          /\ quota = [urls |-> 1, presses |-> 1, cancels |-> 1,
                      faults |-> AnyFailure(Sparse(MaxEntries))]
       \/ /\ catalog = (PlA :> Titled(Playlist(AllValid(MaxShort)), <<"Uploading", "tips">>))
          /\ quota = [urls |-> 1, presses |-> 1, cancels |-> 0, faults |-> 0]
       \/ /\ catalog = (VidA :> Video(FALSE, <<>>))
          /\ quota = [urls |-> 1, presses |-> 1, cancels |-> 0, faults |-> 0]

NextBatch == Step(FewOutcomes)

SpecBatch == InitBatch /\ [][NextBatch]_vars

\* the same runs under the scheduling of the event loop: a coroutine whose awaited
\* call has returned is resumed, and every fetch, delivery and edit call returns
InitLive ==
    /\ InitChat
    /\ pyHash = (PlA :> 7)
    /\ \/ \E n \in 1..MaxShort :
            /\ catalog = (PlA :> Playlist(AllValid(n)))
            /\ quota = [urls |-> 1, presses |-> 1, cancels |-> 0,
                        faults |-> AnyFailure(AllValid(n))]
       \/ /\ catalog = (PlA :> Playlist(Sparse(MaxEntries)))
          /\ quota = [urls |-> 1, presses |-> 1, cancels |-> 1,
                      faults |-> AnyFailure(Sparse(MaxEntries))]
       \/ /\ catalog = (VidA :> Video(FALSE, <<>>))
          /\ quota = [urls |-> 1, presses |-> 1, cancels |-> 0, faults |-> 1]

SpecLive == InitLive /\ [][NextBatch]_vars /\ WF_vars(Scheduled(FewOutcomes))

\* one chat over several URLs and button presses: two playlists whose hashes may
\* fall on the same short id, entries whose ids contain the delimiters
ChatCatalog ==
    (PlA :> Playlist(<<Entry(<<"a", "_", "7", "_", "b">>)>>))
        @@ (PlB :> Playlist(<<Entry(<<"a-b">>), NullEntry, Entry(<<"a", "_", "b">>)>>))
        @@ (VidA :> Video(FALSE, <<>>))

InitChatRun ==
    /\ InitChat
    /\ catalog = ChatCatalog
    /\ \/ /\ \E hash_b \in {42, 7 + HASH_MODULUS} : pyHash = (PlA :> 7) @@ (PlB :> hash_b)
          /\ quota = [urls |-> MaxUrls, presses |-> MaxPresses, cancels |-> 0, faults |-> 0]
       \/ /\ pyHash = (PlA :> 7) @@ (PlB :> 42)
          /\ quota = [urls |-> 1, presses |-> 1, cancels |-> 1, faults |-> 1]

NextChat == Step({Fetched(FALSE, <<File(MiB)>>)})

SpecChat == InitChatRun /\ [][NextChat]_vars

\* a chat in which a playlist of more than half a batch is submitted and acted on
\* more than once, one call failing along the way; and a chat of one URL and one
\* press over the playlists and the video of ChatCatalog
InitChatAgain ==
    /\ InitChat
    /\ \/ /\ catalog = (PlA :> Playlist(AllValid(DOWNLOAD_BATCH_SIZE \div 2 + 1)))
          /\ pyHash = (PlA :> 7)
          /\ quota = [urls |-> MaxUrls, presses |-> MaxPresses, cancels |-> 0, faults |-> 1]
       \/ /\ catalog = ChatCatalog
          /\ pyHash = (PlA :> 7) @@ (PlB :> 42)
          /\ quota = [urls |-> 1, presses |-> 1, cancels |-> 1, faults |-> 1]

\* the jobs whose extract_info call has returned
FetchReturned == {j \in JobIds : jobs[j].fetches > 0}

\* The runs are watched while the downloads are slow: up to MaxFetched calls of
\* extract_info return while the user goes on sending URLs and pressing buttons.
NextAgain ==
    \/ \E url \in DOMAIN catalog : handle_url(url)
    \/ \E m \in 1..Len(msgs) : \E d \in msgs[m].keyboard : callback_query_handler(m, d)
    \/ cancel_command
    \/ hpa_resolve
    \/ hpa_batch
    \/ hpa_first
    \/ hpa_announced
    \/ hpa_gather_raised
    \/ hpa_complete
    \/ hqs_done
    \/ \E j \in JobIds : download_start(j)
    \/ \E j \in JobIds :
            /\ Cardinality(FetchReturned) < MaxFetched
            /\ download_fetch(j, {Fetched(FALSE, <<File(MiB)>>)})
    \/ \E j \in JobIds : download_send(j)
    \/ \E j \in JobIds : download_finish(j)

SpecAgain == InitChatAgain /\ [][NextAgain]_vars

\* the menus: playlists longer than the select menu, videos with every short list
\* of streams, and callback payloads no button of the bot carries
Streams ==
    {Stream(360, "avc1", "mp4a", 0), Stream(480, "avc1", "mp4a", 3 * MiB),
     Stream(720, "avc1", "mp4a", 0), Stream(720, "vp9", "none", 5 * MiB),
     Stream(1080, "avc1", "mp4a", -1), Stream(2160, "avc1", "none", 0),
     Stream(4320, "av01", "none", 0), Stream(240, "avc1", "none", 0),
     Stream(0, "none", "mp4a", 0)}

RECURSIVE FormatLists(_)
FormatLists(len) ==
    IF len = 0 THEN {<<>>}
    ELSE FormatLists(len - 1)
            \cup {Append(fs, f) : fs \in {g \in FormatLists(len - 1) : Len(g) = len - 1}, f \in Streams}

Crafted == {<<"noop">>, <<"playlist">>, <<"quality">>, <<"video", "_", "information">>}

InitMenu ==
    /\ InitChat
    /\ pyHash = (PlA :> 7)
    /\ \/ \E n \in {SELECT_LIMIT, SELECT_LIMIT + MaxOver} :
            /\ catalog = (PlA :> Playlist(AllValid(n)))
            /\ quota = [urls |-> 1, presses |-> MaxPresses, cancels |-> 0, faults |-> 0]
       \/ /\ catalog = (PlA :> Playlist(AllValid(1)))
          /\ quota = [urls |-> 1, presses |-> 1, cancels |-> 1, faults |-> 1]
       \/ \E formats \in FormatLists(MaxFormats) :
            /\ catalog = (VidA :> Video(FALSE, formats))
            /\ quota = [urls |-> 1, presses |-> 1, cancels |-> 0, faults |-> 0]

\* the buttons the user of these runs presses: any button, except that on the menu
\* of a long playlist only "select" is chosen
Pressed(m) ==
    IF msgs[m].owner # <<>> /\ IsPlaylistUrl(msgs[m].owner)
          /\ Len(catalog[msgs[m].owner].entries) > MaxShort
    THEN {d \in msgs[m].keyboard : d[3] \in {"select", "video", "info"}}
    ELSE msgs[m].keyboard

NextMenu ==
    \/ \E url \in DOMAIN catalog : handle_url(url)
    \/ \E m \in 1..Len(msgs) : \E d \in Pressed(m) : callback_query_handler(m, d)
    \/ \E m \in 1..Len(msgs) : \E d \in Crafted : callback_query_handler(m, d)
    \/ cancel_command
    \/ Scheduled({Fetched(FALSE, <<File(MiB)>>)})

SpecMenu == InitMenu /\ [][NextMenu]_vars

(***************************************************************************)
(* C1.  In a download-all or audio-all action the batches run strictly in  *)
(* sequence: no job of a later batch has started (left its created state   *)
(* for the "Downloading" line) while a job of an earlier batch has not yet *)
(* reached its terminal state.                                             *)
(***************************************************************************)
C1_BatchesInSequence ==
    \A a \in JobIds : \A b \in JobIds :
        (jobs[a].batch < jobs[b].batch /\ jobs[b].pc # "created") => Terminal(a)

\* a job of the second batch is running after the five jobs of the first one ended
C1_Witness ==
    /\ h.action \in {<<"all">>, <<"audio">>}
    /\ \E b \in JobIds : jobs[b].batch = 2 /\ jobs[b].pc = "fetching"
    /\ Cardinality({a \in JobIds : jobs[a].batch = 1}) = DOWNLOAD_BATCH_SIZE

(***************************************************************************)
(* C2.  A failure of one DownloadJob is caught at the job boundary: it     *)
(* never makes the bulk action end while a batch is still to be started.   *)
(* Stated as: a bulk action never ends through an exception re-raised by   *)
(* asyncio.gather from one of its jobs.                                    *)
(***************************************************************************)
C2_JobFailureStaysInJob ==
    ~(/\ h.kind = "playlist"
      /\ h.outcome = "Failed"
      /\ h.cause = "gather"
      /\ \E j \in JobIds : jobs[j].res = "raised"
      /\ NextBatchStart(h.entries, h.batch_start + DOWNLOAD_BATCH_SIZE) < h.total)

(***************************************************************************)
(* C3.  After any DownloadJob has ended, its scratch directory no longer   *)
(* exists, whatever the fetch left in it.                                  *)
(***************************************************************************)
C3_ScratchRemoved ==
    \A j \in JobIds : Terminal(j) => ~jobs[j].dir.exists

(***************************************************************************)
(* C4.  A fetched file of more than 2,000 MiB is never handed to the       *)
(* Delivery Sink, and its job ends failed: a job whose output file exceeds *)
(* MAX_FILE_SIZE has made no send call, is past the fetch and is marked    *)
(* failed; a job that is about to send or has sent holds a file within the *)
(* ceiling.                                                                *)
(***************************************************************************)
C4_OversizeNeverSent ==
    \A j \in JobIds :
        /\ jobs[j].chosen.size > MAX_FILE_SIZE =>
                /\ jobs[j].sends = 0
                /\ jobs[j].pc \in {"finishing", "done"}
                /\ jobs[j].res = "failed"
        /\ (jobs[j].pc = "sending" \/ jobs[j].sends > 0) => jobs[j].chosen.size <= MAX_FILE_SIZE

\* an audio job of a playlist has ended on a file one byte over the ceiling
C4_Witness ==
    \E j \in JobIds :
        /\ jobs[j].quality = <<"audio">>
        /\ jobs[j].label # NoLabel
        /\ jobs[j].chosen.size = MAX_FILE_SIZE + 1
        /\ Terminal(j)

(***************************************************************************)
(* C5.  As claimed: when a download-all action has finished, the final     *)
(* report holds one "completed" or "failed" line per item, n lines in all. *)
(***************************************************************************)
ItemLines(text) == {i \in 1..Len(text) : text[i].k \in {"Completed", "Failed"}}

C5_OneLinePerItem ==
    (h.kind = "playlist" /\ h.action = <<"all">> /\ h.outcome = "Completed") =>
        Cardinality(ItemLines(msgs[h.msg].text)) = Len(h.entries)

(***************************************************************************)
(* C5, amended.  When a download-all action has finished, the final report *)
(* is the "complete" message alone: it replaced the whole report, and no   *)
(* per-item line is left in it, whatever the jobs' outcomes and order.     *)
(***************************************************************************)
C5_FinalReportIsCompleteMessage ==
    (h.kind = "playlist" /\ h.action = <<"all">> /\ h.outcome = "Completed") =>
        msgs[h.msg].text = <<Line("Complete", <<>>, <<"all">>)>>

\* a download-all over two batches has finished, one item delivered, another failed
C5_Witness ==
    /\ h.kind = "playlist" /\ h.action = <<"all">> /\ h.outcome = "Completed"
    /\ h.batches = 2
    /\ \E j \in JobIds : jobs[j].res = "ok"
    /\ \E j \in JobIds : jobs[j].res = "failed"

(***************************************************************************)
(* C6.  A cancel request issued while a playlist batch action is running   *)
(* is answered "Download canceled." and no batch is started after it.      *)
(***************************************************************************)
C6_CancelStopsBatches ==
    cancel_log.asked =>
        /\ answers = "Download canceled."
        /\ h.batches = cancel_log.batches

(***************************************************************************)
(* C7.  A payload "playlist_video|<videoId>|<quality>" is routed to the    *)
(* single-item flow for https://www.youtube.com/watch?v=<videoId> at       *)
(* <quality>.                                                              *)
(***************************************************************************)
C7_ItemButtonRouted ==
    StartsWith(h.pressed, <<"playlist", "_", "video", "|">>) =>
        /\ h.kind = "single"
        /\ h.url = WatchUrl(Split(h.pressed, "|")[2])
        /\ h.quality = Split(h.pressed, "|")[3]

(***************************************************************************)
(* C8.  Every bulk-action button on display resolves to the playlist it    *)
(* was rendered for: the short id it carries is in the lookup table and    *)
(* maps to the URL of that playlist.                                       *)
(***************************************************************************)
C8_ButtonResolvesToItsPlaylist ==
    \A m \in 1..Len(msgs) : \A d \in msgs[m].keyboard :
        (StartsWith(d, <<"playlist", "_">>) /\ ~StartsWith(d, <<"playlist", "_", "video", "|">>)) =>
            /\ Route(d, urls).to = "playlist"
            /\ Route(d, urls).url = msgs[m].owner

(***************************************************************************)
(* C9.  For a playlist of n entries, none null, download-all creates its   *)
(* jobs in playlist order, the job of entry i labelled [i/n] and placed in *)
(* batch ceil(i/5); the batches started so far cover a prefix of the       *)
(* playlist in steps of 5; and a finished action has run ceil(n/5) batches *)
(* and given every entry exactly one job.                                  *)
(***************************************************************************)
C9_BatchPartition ==
    (/\ h.kind = "playlist" /\ h.action = <<"all">> /\ h.entries # <<>>
     /\ \A i \in 1..Len(h.entries) : h.entries[i].present) =>
        LET n == Len(h.entries)
        IN  /\ \A j \in JobIds :
                /\ jobs[j].label = <<j, n>>
                /\ jobs[j].batch = (j - 1) \div DOWNLOAD_BATCH_SIZE + 1
                /\ jobs[j].url = WatchUrl(h.entries[j].id)
            /\ Len(jobs) = Min(DOWNLOAD_BATCH_SIZE * h.batches, n)
            /\ h.outcome = "Completed" =>
                /\ h.batches = (n + DOWNLOAD_BATCH_SIZE - 1) \div DOWNLOAD_BATCH_SIZE
                /\ Len(jobs) = n

\* a download-all of more than one batch has finished, its last batch not a full one
C9_Witness ==
    /\ h.kind = "playlist" /\ h.action = <<"all">> /\ h.outcome = "Completed"
    /\ \A i \in 1..Len(h.entries) : h.entries[i].present
    /\ h.batches > 1
    /\ Len(jobs) % DOWNLOAD_BATCH_SIZE = 2

(***************************************************************************)
(* C10.  In the single-item flow every job failure is shown to the user as *)
(* a failure message with its reason, and no message is left at the        *)
(* "Downloading..." status once the job has failed.  Stated for the        *)
(* failures the job catches itself: a fetch error, no file produced, the   *)
(* size ceiling, a delivery error.                                         *)
(***************************************************************************)
Shown(m) == msgs[m].text \o msgs[m].caption

C10_FailureSurfaced ==
    (/\ h.kind = "single" /\ h.pc = "idle"
     /\ \E t \in h.tasks : jobs[t].res = "failed") =>
        /\ \E m \in 1..Len(msgs) : \E i \in 1..Len(Shown(m)) : Shown(m)[i].k = "Failed"
        /\ \A m \in 1..Len(msgs) : \A i \in 1..Len(Shown(m)) : Shown(m)[i].k # "Status"

(***************************************************************************)
(* C11.  When the playlist resolution of a bulk action fails (the          *)
(* extractor raises, returns nothing, or the playlist has no entries), the *)
(* action has ended as failed, the report holds one error line and nothing *)
(* else, and no job is ever created for the action.                        *)
(***************************************************************************)
C11_ResolveFailureAborts ==
    (h.kind = "playlist" /\ h.cause = "extract_info") =>
        /\ h.pc = "idle" /\ h.outcome = "Failed"
        /\ Len(msgs[h.msg].text) = 1
        /\ msgs[h.msg].text[1].k \in {"Error", "NotFetched", "Empty"}
        /\ msgs[h.msg].keyboard = {}
        /\ jobs = <<>> /\ h.tasks = {} /\ h.batches = 0

\* the extractor raised while a download-all was resolving its playlist
C11_Witness ==
    /\ h.kind = "playlist" /\ h.cause = "extract_info" /\ h.action = <<"all">>
    /\ msgs[h.msg].text = <<Line("Error", <<>>, <<"playlist">>)>>

(***************************************************************************)
(* C12.  Every fetch, delivery and edit call returning, a download-all,    *)
(* audio-all or first-N action that has begun to resolve its playlist      *)
(* eventually has ended as Completed or Failed with every job created      *)
(* having reached its terminal state.                                      *)
(***************************************************************************)
C12_BatchActionTerminates ==
    (/\ h.kind = "playlist" /\ h.pc = "resolving"
     /\ h.action \in {<<"all">>, <<"audio">>, <<"first5">>})
        ~> (/\ h.kind = "playlist" /\ h.pc = "idle"
            /\ h.outcome \in {"Completed", "Failed"}
            /\ \A j \in JobIds : Terminal(j))

\* a bulk action was aborted by a job that raised, and the jobs it left behind ended
C12_Witness ==
    /\ h.kind = "playlist" /\ h.pc = "idle" /\ h.outcome = "Failed" /\ h.cause = "gather"
    /\ Len(jobs) >= 2
    /\ \A j \in JobIds : Terminal(j)
    /\ \E j \in JobIds : jobs[j].res \in {"ok", "failed"}

(***************************************************************************)
(* C13.  audio-all and download-all launch the same jobs: in both, the     *)
(* jobs created so far are, in playlist order, those of the non-null       *)
(* entries, each with the watch URL of its entry and the label [i/n] of    *)
(* its position; two jobs share a batch exactly when their positions fall  *)
(* in the same group of 5, and a batch is created as a whole.  The two     *)
(* differ by the quality alone: "audio" for audio-all, "720" for           *)
(* download-all.                                                           *)
(***************************************************************************)
C13_AudioAllSameAsDownloadAll ==
    (h.kind = "playlist" /\ h.action \in {<<"all">>, <<"audio">>} /\ h.entries # <<>>) =>
        LET n == Len(h.entries)
            plan == Ascending({idx \in 0..(n - 1) : h.entries[idx + 1].present})
            group(i) == plan[i] \div DOWNLOAD_BATCH_SIZE
        IN  /\ Len(jobs) <= Len(plan)
            /\ \A j \in JobIds :
                  /\ jobs[j].label = <<plan[j] + 1, n>>
                  /\ jobs[j].url = WatchUrl(VideoId(h.entries[plan[j] + 1]))
                  /\ jobs[j].quality = IF h.action = <<"audio">> THEN <<"audio">> ELSE <<"720">>
            /\ \A j \in JobIds : \A k \in JobIds :
                  j < k => /\ jobs[j].batch <= jobs[k].batch
                           /\ (jobs[j].batch = jobs[k].batch) <=> (group(j) = group(k))
            /\ \A i \in 1..Len(plan) : \A j \in JobIds : i > Len(jobs) => group(j) < group(i)

\* an audio-all over a playlist with null entries has finished after two batches
C13_Witness ==
    /\ h.kind = "playlist" /\ h.action = <<"audio">> /\ h.outcome = "Completed"
    /\ h.batches = 2
    /\ \E i \in 1..Len(h.entries) : ~h.entries[i].present
    /\ \A j \in JobIds : jobs[j].quality = <<"audio">>

(***************************************************************************)
(* C14.  The first-N action (N = 5) creates jobs for the non-null entries  *)
(* among the first min(5, n) of the playlist and for no other entry, all   *)
(* of them at once in one batch, labelled [i/min(5, n)]; it never starts a *)
(* second batch.                                                           *)
(***************************************************************************)
C14_FirstFiveOneBatch ==
    (h.kind = "playlist" /\ h.action = <<"first5">> /\ h.entries # <<>>) =>
        LET limit == IF Len(h.entries) < FIRST_N THEN Len(h.entries) ELSE FIRST_N
            first == {i \in 1..limit : h.entries[i].present}
        IN  /\ h.batches <= 1
            /\ jobs = <<>> \/ Len(jobs) = Cardinality(first)
            /\ \A j \in JobIds :
                  /\ jobs[j].batch = 1
                  /\ jobs[j].label[1] \in first /\ jobs[j].label[2] = limit
                  /\ jobs[j].url = WatchUrl(VideoId(h.entries[jobs[j].label[1]]))
                  /\ \A k \in JobIds : j # k => jobs[j].label # jobs[k].label
            /\ h.outcome = "Completed" => Len(jobs) = Cardinality(first)

\* a first-N on a playlist of more than five entries has finished with five jobs,
\* which were running at the same time
C14_Witness ==
    /\ h.kind = "playlist" /\ h.action = <<"first5">>
    /\ Len(h.entries) > FIRST_N
    /\ Len(jobs) = FIRST_N
    /\ \A j \in JobIds : jobs[j].pc = "fetching"

(***************************************************************************)
(* C15.  The select menu holds the buttons of at most 30 items, all of     *)
(* them among the first 30 entries of the playlist, whatever its length;   *)
(* and the select action creates no job.                                   *)
(***************************************************************************)
C15_SelectAtMost30 ==
    /\ \A m \in 1..Len(msgs) :
          msgs[m].text = <<Line("Select", <<>>, <<>>)>> =>
              LET entries == catalog[msgs[m].owner].entries
                  items == {d \in msgs[m].keyboard : StartsWith(d, <<"video", "_", "info", "|">>)}
              IN  /\ Cardinality(items) <= 30
                  /\ \A d \in msgs[m].keyboard :
                        \E i \in 1..30 : i <= Len(entries) /\ d[5] = entries[i].id[1]
                                                            /\ d[6] = entries[i].id[2]
    /\ (h.kind = "playlist" /\ h.action = <<"select">>) =>
            jobs = <<>> /\ h.tasks = {} /\ h.batches = 0
    /\ jobs # <<>> => StartsWith(h.pressed, <<"quality", "|">>)
                          \/ (h.kind = "playlist" /\ h.action # <<"select">>)

\* the select menu of a playlist of more than 30 entries is on display, 30 items in it
C15_Witness ==
    /\ h.kind = "playlist" /\ h.action = <<"select">> /\ h.outcome = "Completed"
    /\ Len(h.entries) > 30
    /\ Cardinality({d \in msgs[h.msg].keyboard : StartsWith(d, <<"video", "_", "info", "|">>)}) = 30

(***************************************************************************)
(* C16.  A button press whose payload starts with none of the prefixes the *)
(* router knows is answered "Unknown action" and nothing else happens: no  *)
(* message is edited or sent, no job is created, and the lookup table and  *)
(* the stored task handle stay as they were.                               *)
(***************************************************************************)
KnownPrefix(d) ==
    \/ StartsWith(d, <<"quality", "|">>)
    \/ StartsWith(d, <<"playlist", "_">>)
    \/ StartsWith(d, <<"video", "_", "info", "|">>)

C16_UnknownPrefixAckOnly ==
    [][(quota'.presses = quota.presses - 1 /\ ~KnownPrefix(h'.pressed)) =>
            /\ answers' = "Unknown action"
            /\ UNCHANGED <<msgs, jobs, urls, download_task>>
            /\ h'.pc = "idle" /\ h'.tasks = {}]_vars

\* a payload without a known prefix was pressed on the menu of a stored playlist
C16_Witness ==
    /\ h.pressed = <<"video", "_", "information">>
    /\ answers = "Unknown action"
    /\ urls # <<>>
    /\ \E m \in 1..Len(msgs) : msgs[m].keyboard # {}

(***************************************************************************)
(* C17.  In every quality menu on display the resolution buttons (all but  *)
(* the last, "Audio Only") are in strictly descending order of height, so  *)
(* no height appears twice, and every height is between 480 and 2160.      *)
(***************************************************************************)
KnownHeights == {f.height : f \in Streams} \cup {1080, 720, 480}

HeightOf(button) == CHOOSE n \in KnownHeights : ToString(n) = button.data[3]

C17_ResolutionButtonsOrdered ==
    \A m \in 1..Len(msgs) :
        msgs[m].rows # <<>> =>
            LET rows == msgs[m].rows
                last == Len(rows)
            IN  /\ rows[last].data[3] = "audio"
                /\ \A i \in 1..(last - 1) :
                      /\ rows[i].data[3] # "audio"
                      /\ 480 <= HeightOf(rows[i]) /\ HeightOf(rows[i]) <= 2160
                      /\ rows[i].label[1] = ToString(HeightOf(rows[i]))
                      /\ \A k \in (i + 1)..(last - 1) : HeightOf(rows[i]) > HeightOf(rows[k])

\* the menu of a video whose streams are listed lowest first, one height twice
C17_Witness ==
    \E m \in 1..Len(msgs) :
        LET formats == catalog[msgs[m].owner].formats
        IN  /\ Len(msgs[m].rows) = 3
            /\ Len(formats) = 3
            /\ formats[1].height < formats[2].height
            /\ formats[2] = formats[3]
            /\ formats[1].acodec # "none" /\ formats[2].acodec # "none"

(***************************************************************************)
(* C18.  When no stream of a resolved video qualifies for a button (none   *)
(* of the streams kept has a height between 480 and 2160), the menu shown  *)
(* is exactly 1080p, 720p, 480p, Audio Only, in that order, until one of   *)
(* its buttons is pressed.                                                 *)
(***************************************************************************)
Qualifies(formats) ==
    LET combined == {i \in 1..Len(formats) :
                        /\ formats[i].vcodec # "none" /\ formats[i].acodec # "none"
                        /\ formats[i].height # 0}
        videoonly == {i \in 1..Len(formats) :
                        formats[i].vcodec # "none" /\ formats[i].height >= 480}
        kept == IF combined # {} THEN combined ELSE videoonly
    IN  \E i \in kept : 480 <= formats[i].height /\ formats[i].height <= 2160

C18_FallbackMenu ==
    \A url \in DOMAIN catalog :
        (catalog[url].res = "video" /\ ~Qualifies(catalog[url].formats) /\ msgs # <<>>) =>
            \/ h.kind = "single"
            \/ msgs[1].rows =
                  <<Button(<<"1080", "p">>, <<"quality", "|", "1080", "|">> \o url),
                    Button(<<"720", "p">>, <<"quality", "|", "720", "|">> \o url),
                    Button(<<"480", "p">>, <<"quality", "|", "480", "|">> \o url),
                    Button(<<"Audio Only">>, <<"quality", "|", "audio", "|">> \o url)>>

\* the fallback menu of a video that has streams, none of them within the range
C18_Witness ==
    /\ msgs # <<>>
    /\ Len(msgs[1].rows) = 4
    /\ LET formats == catalog[msgs[1].owner].formats
       IN  /\ Len(formats) >= 2
           /\ \E i \in 1..Len(formats) : formats[i].height = 4320
           /\ \E i \in 1..Len(formats) : formats[i].height = 360
           /\ ~Qualifies(formats)

(***************************************************************************)
(* C19.  Once a bulk action has ended, Completed or Failed, its report     *)
(* message is not edited any more: no job left over from a batch of the    *)
(* action changes it.                                                      *)
(***************************************************************************)
C19_EndedReportUntouched ==
    [][(/\ h.kind = "playlist" /\ h.pc = "idle"
        /\ h.outcome \in {"Completed", "Failed"}
        /\ h' = h) => msgs'[h.msg] = msgs[h.msg]]_vars

(***************************************************************************)
(* C20.  In download-all and audio-all no job of a batch has started (left *)
(* its created state for the "Downloading" line) while the announcement of *)
(* that batch has not yet been written to the report.                      *)
(***************************************************************************)
C20_AnnouncedBeforeJobsStart ==
    (h.kind = "playlist" /\ h.action \in {<<"all">>, <<"audio">>} /\ h.pc = "announce") =>
        \A t \in h.tasks : jobs[t].pc = "created"

(***************************************************************************)
(* C21.  When a job of a bulk action ends, the report holds exactly one    *)
(* line for the job's label: "Completed <label>" after a delivery,         *)
(* "Failed <label>: <reason>" after a failure, and no "Downloading" or     *)
(* "Uploading" line is left for that label.                                *)
(***************************************************************************)
LinesOf(text, label) == {i \in 1..Len(text) : text[i].lab = label}

C21_OneLinePerLabelReplaced ==
    [][\A j \in JobIds :
          (jobs[j].label # NoLabel /\ jobs[j].res = "none" /\ jobs'[j].res \in {"ok", "failed"}) =>
              LET text == msgs'[jobs[j].msg].text
                  mine == LinesOf(text, jobs[j].label)
              IN  /\ Cardinality(mine) = 1
                  /\ \A i \in mine :
                        text[i].k = IF jobs'[j].res = "ok" THEN "Completed" ELSE "Failed"]_vars

(***************************************************************************)
(* C22.  Every job of a bulk action that reaches its upload phase writes   *)
(* an "Uploading <label> (<size>)" line for its own label into the report. *)
(***************************************************************************)
C22_UploadingLineForEveryJob ==
    [][\A j \in JobIds :
          (jobs[j].label # NoLabel /\ jobs[j].pc = "fetching" /\ jobs'[j].pc = "sending") =>
              \E i \in 1..Len(msgs'[jobs[j].msg].text) :
                  msgs'[jobs[j].msg].text[i] =
                      Line("Uploading", jobs[j].label, <<SizeMB(jobs'[j].chosen.size)>>)]_vars

(***************************************************************************)
(* C23.  Nothing is retried: a job calls the fetcher at most once and the  *)
(* Delivery Sink at most once, a job that has ended made its one fetch     *)
(* call (unless it raised before it), a failed job is never followed by a  *)
(* second job for the same entry, and within one bulk action no two jobs   *)
(* carry the same label or URL.                                            *)
(***************************************************************************)
C23_NoRetry ==
    /\ \A j \in JobIds :
          /\ jobs[j].fetches <= 1 /\ jobs[j].sends <= 1
          /\ jobs[j].sends = 1 => jobs[j].fetches = 1
          /\ (Terminal(j) /\ jobs[j].res # "raised") => jobs[j].fetches = 1
    /\ h.kind = "playlist" =>
          \A j \in JobIds : \A k \in JobIds :
              j # k => jobs[j].label # jobs[k].label /\ jobs[j].url # jobs[k].url

\* a bulk action has finished with one job failed at the fetch and another at the
\* delivery
C23_Witness ==
    /\ h.kind = "playlist" /\ h.outcome = "Completed"
    /\ \E j \in JobIds : jobs[j].res = "failed" /\ jobs[j].sends = 0 /\ jobs[j].fetches = 1
    /\ \E j \in JobIds : jobs[j].res = "failed" /\ jobs[j].sends = 1

(***************************************************************************)
(* C24.  In download-all, audio-all and first-N an entry that is null or   *)
(* has no identifier gets no job, and it takes no place in a batch: the    *)
(* batch being run holds 5 jobs, or all the valid entries not yet given a  *)
(* job when fewer than 5 are left.                                         *)
(***************************************************************************)
ValidEntries(entries) == {i \in 1..Len(entries) : entries[i].present /\ entries[i].id # <<>>}

C24_NullEntryTakesNoSlot ==
    (/\ h.kind = "playlist" /\ h.action \in {<<"all">>, <<"audio">>, <<"first5">>}
     /\ h.pc \in {"announce", "gather"}) =>
        LET before == Len(jobs) - Cardinality(h.tasks)
            left == Cardinality(ValidEntries(h.entries)) - before
        IN  /\ \A j \in JobIds : jobs[j].label[1] \in ValidEntries(h.entries)
            /\ Cardinality(h.tasks) = IF left < DOWNLOAD_BATCH_SIZE THEN left
                                      ELSE DOWNLOAD_BATCH_SIZE

(***************************************************************************)
(* C25.  At every moment at most 5 jobs created by bulk actions are        *)
(* running (past their start and not yet returned) in the chat.            *)
(***************************************************************************)
RunningBulkJobs ==
    {j \in JobIds : jobs[j].label # NoLabel /\ jobs[j].pc \in {"fetching", "sending", "finishing"}}

C25_AtMostFiveRunning == Cardinality(RunningBulkJobs) <= 5

(***************************************************************************)
(* C26.  The menu of a resolved video is shown whatever the sizes of its   *)
(* streams: every height between 480 and 2160 among the streams kept has   *)
(* its button, labelled with the resolution alone when the size of the     *)
(* stream that gives the button is unknown (absent or null), and with the  *)
(* size added when it is known.                                            *)
(***************************************************************************)
KeptStreams(formats) ==
    LET combined == {i \in 1..Len(formats) :
                        /\ formats[i].vcodec # "none" /\ formats[i].acodec # "none"
                        /\ formats[i].height # 0}
        videoonly == {i \in 1..Len(formats) :
                        formats[i].vcodec # "none" /\ formats[i].height >= 480}
    IN  IF combined # {} THEN combined ELSE videoonly

\* the stream a height gets its button from: the first one listed with the height
GivesButton(formats, i) ==
    /\ i \in KeptStreams(formats)
    /\ 480 <= formats[i].height /\ formats[i].height <= 2160
    /\ \A k \in KeptStreams(formats) : formats[k].height = formats[i].height => i <= k

C26_UnknownSizeStillOffered ==
    \A url \in DOMAIN catalog :
        (catalog[url].res = "video" /\ msgs # <<>> /\ h.kind # "single") =>
            LET formats == catalog[url].formats
                rows == msgs[1].rows
            IN  /\ rows # <<>>
                /\ \A i \in 1..Len(formats) :
                      GivesButton(formats, i) =>
                          \E r \in 1..Len(rows) :
                              /\ rows[r].data[3] = ToString(formats[i].height)
                              /\ formats[i].filesize <= 0 =>
                                    rows[r].label = <<ToString(formats[i].height), "p">>
                              /\ formats[i].filesize > 0 => Len(rows[r].label) = 4

(***************************************************************************)
(* C27.  A bulk action (download-all, audio-all, first-N) that has ended   *)
(* ended Completed with the "complete" message as its report, unless the   *)
(* resolution failed, an edit of the handler raised, or a batch wait       *)
(* raised because a job raised.  A job that returned False, every job of   *)
(* the action included, never makes the action end Failed.                 *)
(***************************************************************************)
BulkEnded ==
    /\ h.kind = "playlist"
    /\ h.action \in {<<"all">>, <<"audio">>, <<"first5">>}
    /\ h.pc = "idle"

C27_JobOutcomesDoNotDecide ==
    BulkEnded =>
        \/ /\ h.outcome = "Completed"
           /\ msgs[h.msg].text = <<Line("Complete", <<>>, h.action)>>
           /\ msgs[h.msg].keyboard = {}
        \/ /\ h.outcome = "Failed"
           /\ h.cause \in {"extract_info", "edit_text"}
        \/ /\ h.outcome = "Failed"
           /\ h.cause = "gather"
           /\ \E j \in JobIds : jobs[j].res = "raised"

\* a bulk action has ended Completed although every one of its jobs, in two
\* batches, returned False
C27_Witness ==
    /\ BulkEnded
    /\ h.outcome = "Completed"
    /\ h.batches = 2
    /\ Len(jobs) >= 2
    /\ \A j \in JobIds : jobs[j].pc = "done" /\ jobs[j].res = "failed"

====
